---- MODULE Spec2Model ----
(***************************************************************************)
(* spark-partition-server: the Coordinator (registration, discovery and    *)
(* shutdown fan-out), the per-partition FlaskPartitionServer and the       *)
(* driver-side Cluster, as a state machine.                                *)
(*                                                                         *)
(* Threads are interleaved at the granularity of the statements that read  *)
(* or write shared attributes: the Flask servers run with threaded=True,   *)
(* so every request handler is a thread of its own, and shutdown_hosts     *)
(* starts one thread per registered partition.  One dict operation         *)
(* (a store, a delete, len, a copy) is one step, as under CPython's GIL.   *)
(*                                                                         *)
(* Encodings: Python's None is NoneInt for await_partitions, NoToken for   *)
(* a token, NoEntry for a registry entry, "None" for full_cluster.  A      *)
(* (host, port) pair is a number of Addrs.  A token is a number: NoToken   *)
(* or one of 1..MaxTokens.                                                 *)
(***************************************************************************)
EXTENDS Integers, FiniteSets, Sequences, TLC

\* ------------------------------------------------------------- bounds
MaxPartitions == 2
MaxTokens == 2
MaxCores == 2
MaxRequests == 2

\* ---------------------------------------------------------- encodings
NoneInt == -1
NoToken == 0
NoEntry == 0

Partitions == 0 .. (MaxPartitions - 1)
Addrs == 1 .. MaxPartitions
Tokens == 1 .. MaxTokens
ReqIds == 0 .. (MaxPartitions - 1)
WReqIds == 1 .. MaxRequests

VARIABLES
    \* ---- Coordinator (coordinator.py) and its ServerThread
    cstate,             \* "NONE" | "CREATED" | "PORT" | "LISTENING" | "STOPPED"
    await_partitions,   \* Coordinator.await_partitions
    ctoken,             \* Coordinator.token
    hosts,              \* Coordinator.hosts: partition -> address
    full_cluster,       \* Coordinator.full_cluster: "None" | "False" | "True"
    register_callback,  \* Coordinator.register_callback is not None
    reqs,               \* the /register handler threads, one per request in flight
    sh_pc,              \* shutdown_host / shutdown_hosts: position of the caller
    sh_mode,            \* "all" (shutdown_hosts) | "one" (a direct shutdown_host)
    th,                 \* the shutdown_host executions, one per partition
    \* ---- Cluster (cluster.py), MapPartitionsThread, the partition servers
    drv,                \* the driver thread: the Cluster call it is in
    is_active,          \* Cluster._is_active
    token,              \* Cluster.token
    await_hosts,        \* the argument of the start call in progress
    num_partitions,     \* rdd.getNumPartitions()
    total_cores,        \* spark.executor.instances * spark.executor.cores
    map_job,            \* MapPartitionsThread: "none" | "started" | "running" | "done" | "failed"
    workers,            \* the partition servers (tasks of the map job)
    \* ---- history
    full0,              \* full_cluster as the constructor left it
    reached,            \* len(hosts) has equalled await_partitions
    shut,               \* a shutdown_host / shutdown_hosts call has been made
    registered,         \* partitions an accepted registration has stored
    quiet,              \* no /register handler ran since shutdown_hosts was called
    sh_failed,          \* a requests.post of the shutdown call in progress has raised
    \* ---- FlaskPartitionServer (partition_server.py): its control route
    wh,                 \* the /control/shutdown handler threads of each partition server
    hook_calls,         \* calls of shutdown_callback made by each partition server
    shutdown_callback,  \* FlaskPartitionServer.shutdown_callback is not None
    \* ---- Cluster: what its caller configured and holds
    cache_result,       \* Cluster.cache_result
    snap_state,         \* the dict get_hosts returned: "none" | "live" | "frozen"
    snap0,              \* its content when it was returned
    snap_frz            \* its content since self.hosts was bound to another dict

coordVars == <<cstate, await_partitions, ctoken, hosts, full_cluster,
               register_callback, reqs, sh_pc, sh_mode, th>>
srvVars == <<wh, hook_calls, shutdown_callback, cache_result>>
clusterVars == <<drv, is_active, token, await_hosts, num_partitions, total_cores,
                 map_job, workers, srvVars>>
histVars == <<full0, reached, shut, registered, quiet, sh_failed>>
snapVars == <<snap_state, snap0, snap_frz>>
vars == <<coordVars, clusterVars, histVars, snapVars>>

\* ------------------------------------------------------------ helpers
EmptyHosts == [q \in {} |-> NoEntry]
Put(h, p, a) == [q \in (DOMAIN h) \cup {p} |-> IF q = p THEN a ELSE h[q]]
Del(h, p) == [q \in (DOMAIN h) \ {p} |-> h[q]]
Size(h) == Cardinality(DOMAIN h)
Get(h, p) == IF p \in DOMAIN h THEN h[p] ELSE NoEntry

\* Python truthiness of await_partitions: None and 0 are false.
Truthy(n) == n # NoneInt /\ n # 0

\* coordinator.py:36 and :126
InitialFullCluster(n) == IF Truthy(n) THEN "False" ELSE "None"

\* A request slot with no request in it.
IdleReq == [pc |-> "idle", tok |-> NoToken, wf |-> TRUE, partition |-> 0,
            addr |-> NoEntry, old_entry |-> NoEntry,
            status |-> 0, called |-> FALSE, ev_full |-> "None"]
IdleTh == [pc |-> "none", url |-> NoEntry]

\* A handler slot of a partition server's /control/shutdown with no request in it.
IdleWReq == [pc |-> "idle", tok |-> NoToken]

InFlight(r) == reqs[r].pc \notin {"idle", "done"}
NoHandlerInFlight == \A r \in ReqIds : ~InFlight(r)

\* ------------------------------------------------- Coordinator.__init__
\* coordinator.py:27-40: the state a new Coordinator has.
CoordinatorInit(n, tok) ==
    /\ await_partitions' = n
    /\ hosts' = EmptyHosts
    /\ ctoken' = tok
    /\ register_callback' = FALSE
    /\ full_cluster' = InitialFullCluster(n)
    /\ full0' = InitialFullCluster(n)
    /\ reached' = (n = 0)
    /\ cstate' = "CREATED"

\* ---------------------------------------------------- /register handler
\* The token check without its "if a token is configured".
TokenRejectedAlways(tok) == ctoken # tok

\* coordinator.py:51: the token check.
TokenRejected(tok) == ctoken # NoToken /\ ctoken # tok

\* coordinator.py:57-59: old_entry, None when the partition has no entry.
OldEntry(h, p) == Get(h, p)

\* coordinator.py:47-59: a request arrives; its handler checks the token
\* (403), reads the JSON payload (a payload without the three keys raises,
\* Flask answers 500) and reads the partition's present entry.  The token
\* and the payload are the handler's own, so this is one step up to the
\* read of self.hosts.
register_recv(r, tok, wf, p, a) ==
    /\ cstate = "LISTENING"
    /\ reqs[r].pc = "idle"
    /\ reqs' = [reqs EXCEPT ![r] =
          IF TokenRejected(tok)
          THEN [IdleReq EXCEPT !.pc = "done", !.status = 403, !.tok = tok, !.wf = wf]
          ELSE IF ~wf
          THEN [IdleReq EXCEPT !.pc = "done", !.status = 500, !.tok = tok, !.wf = wf]
          ELSE [IdleReq EXCEPT !.pc = "l61", !.tok = tok, !.partition = p,
                               !.addr = a, !.old_entry = OldEntry(hosts, p)]]
    /\ quiet' = (quiet /\ (sh_pc = "idle" \/ TokenRejected(tok) \/ ~wf))
    /\ UNCHANGED <<cstate, await_partitions, ctoken, hosts, full_cluster,
                   register_callback, sh_pc, sh_mode, th>>
    /\ UNCHANGED <<full0, reached, shut, registered, sh_failed>>
    /\ UNCHANGED snapVars

\* A store that rebuilds the dict from the new entry alone.
StoreEntryLosing(h, p, a) == [q \in {p} |-> a]

\* coordinator.py:61: self.hosts[partition] = (host, port).  partition, host,
\* port and old_entry are the handler's own and are not assigned again: the
\* event of line 73-78 carries them as they are here, and the slot drops them.
StoreEntry(h, p, a) == Put(h, p, a)

register_store(r) ==
    /\ reqs[r].pc = "l61"
    /\ hosts' = StoreEntry(hosts, reqs[r].partition, reqs[r].addr)
    /\ reqs' = [reqs EXCEPT ![r] = [IdleReq EXCEPT !.pc = "l66"]]
    /\ reached' = (~shut /\ (reached \/ Size(hosts') = await_partitions))
    /\ registered' = IF shut THEN {} ELSE registered \cup {reqs[r].partition}
    /\ UNCHANGED <<cstate, await_partitions, ctoken, full_cluster,
                   register_callback, sh_pc, sh_mode, th>>
    /\ UNCHANGED <<full0, shut, quiet, sh_failed>>
    /\ UNCHANGED snapVars

\* coordinator.py:66: if self.await_partitions == len(self.hosts)
IsFull(n, h) == n = Size(h)

register_check(r) ==
    /\ reqs[r].pc = "l66"
    /\ reqs' = [reqs EXCEPT ![r].pc =
                    IF IsFull(await_partitions, hosts) THEN "l67" ELSE "l72"]
    /\ UNCHANGED <<cstate, await_partitions, ctoken, hosts, full_cluster,
                   register_callback, sh_pc, sh_mode, th>>
    /\ UNCHANGED histVars
    /\ UNCHANGED snapVars

\* coordinator.py:67: self.full_cluster = True
register_full(r) ==
    /\ reqs[r].pc = "l67"
    /\ full_cluster' = "True"
    /\ reqs' = [reqs EXCEPT ![r].pc = "l72"]
    /\ UNCHANGED <<cstate, await_partitions, ctoken, hosts,
                   register_callback, sh_pc, sh_mode, th>>
    /\ UNCHANGED histVars
    /\ UNCHANGED snapVars

\* coordinator.py:72-80: the registration callback, if one is set, with the
\* event {partition_ind, old_entry, new_entry, full_cluster}, then the 200
\* response.  The slot keeps the event it delivered until the client has
\* read the response.
register_done(r) ==
    /\ reqs[r].pc = "l72"
    /\ reqs' = [reqs EXCEPT ![r].pc = "done", ![r].status = 200,
                            ![r].called = register_callback,
                            ![r].ev_full = IF register_callback
                                           THEN full_cluster ELSE "None"]
    /\ UNCHANGED <<cstate, await_partitions, ctoken, hosts, full_cluster,
                   register_callback, sh_pc, sh_mode, th>>
    /\ UNCHANGED histVars
    /\ UNCHANGED snapVars

\* The client has read the response: the request is over.
register_reply(r) ==
    /\ reqs[r].pc = "done"
    /\ reqs' = [reqs EXCEPT ![r] = IdleReq]
    /\ UNCHANGED <<cstate, await_partitions, ctoken, hosts, full_cluster,
                   register_callback, sh_pc, sh_mode, th>>
    /\ UNCHANGED histVars
    /\ UNCHANGED snapVars

\* coordinator.py:90-96: /status
get_status == [expected_partitions |-> await_partitions,
               current_partitions |-> Size(hosts),
               full_cluster |-> full_cluster]

\* coordinator.py:133-134
set_register_callback(b) ==
    /\ cstate = "LISTENING"
    /\ register_callback # b
    /\ register_callback' = b
    /\ UNCHANGED <<cstate, await_partitions, ctoken, hosts, full_cluster,
                   reqs, sh_pc, sh_mode, th>>
    /\ UNCHANGED histVars
    /\ UNCHANGED snapVars

\* ------------------------------------------ shutdown_host / shutdown_hosts
\* A join that does not wait.
FinishedEarly(p) == TRUE

Finished(p) == th[p].pc \in {"none", "done", "died"}

\* coordinator.py:107-119: shutdown_hosts copies the dict and starts one
\* thread per key of the copy.
shutdown_hosts_call ==
    /\ sh_pc = "idle"
    /\ cstate # "NONE"
    /\ th' = [p \in Partitions |->
                IF p \in DOMAIN hosts THEN [pc |-> "l100", url |-> NoEntry]
                ELSE IdleTh]
    /\ sh_pc' = "join"
    /\ sh_mode' = "all"
    /\ shut' = TRUE
    /\ quiet' = NoHandlerInFlight
    /\ reached' = FALSE
    /\ registered' = {}
    /\ UNCHANGED <<cstate, await_partitions, ctoken, hosts, full_cluster,
                   register_callback, reqs>>
    /\ UNCHANGED <<full0, sh_failed>>
    /\ UNCHANGED snapVars

\* coordinator.py:98: shutdown_host(ind) called directly.
shutdown_host_call(p) ==
    /\ sh_pc = "idle"
    /\ cstate # "NONE"
    /\ th' = [th EXCEPT ![p] = [pc |-> "l100", url |-> NoEntry]]
    /\ sh_pc' = "join"
    /\ sh_mode' = "one"
    /\ shut' = TRUE
    /\ quiet' = FALSE
    /\ reached' = FALSE
    /\ registered' = {}
    /\ UNCHANGED <<cstate, await_partitions, ctoken, hosts, full_cluster,
                   register_callback, reqs>>
    /\ UNCHANGED <<full0, sh_failed>>
    /\ UNCHANGED snapVars

\* coordinator.py:100-103: if ind in self.hosts: url = ... % self.hosts[ind]
host_check(p) ==
    /\ th[p].pc = "l100"
    /\ th' = [th EXCEPT ![p] =
                IF p \in DOMAIN hosts THEN [pc |-> "l104", url |-> hosts[p]]
                ELSE [pc |-> "done", url |-> NoEntry]]
    /\ UNCHANGED <<cstate, await_partitions, ctoken, hosts, full_cluster,
                   register_callback, reqs, sh_pc, sh_mode>>
    /\ UNCHANGED histVars
    /\ UNCHANGED snapVars

\* coordinator.py:104: requests.post(url).  It returns when the server at
\* url has answered (ok) and raises when nothing accepts the connection.
host_post(p, ok) ==
    /\ th[p].pc = "l104"
    /\ th' = [th EXCEPT ![p].pc = IF ok THEN "l105" ELSE "died"]
    /\ sh_failed' = (sh_failed \/ ~ok)
    /\ UNCHANGED <<cstate, await_partitions, ctoken, hosts, full_cluster,
                   register_callback, reqs, sh_pc, sh_mode>>
    /\ UNCHANGED <<full0, reached, shut, registered, quiet>>
    /\ UNCHANGED snapVars

\* A removal that also resets the flag to what the constructor gave it.
host_del_resetting(p) ==
    /\ th[p].pc = "l105"
    /\ hosts' = Del(hosts, p)
    /\ full_cluster' = InitialFullCluster(await_partitions)
    /\ th' = [th EXCEPT ![p].pc = IF p \in DOMAIN hosts THEN "done" ELSE "died"]
    /\ UNCHANGED <<cstate, await_partitions, ctoken,
                   register_callback, reqs, sh_pc, sh_mode>>
    /\ UNCHANGED histVars
    /\ UNCHANGED snapVars

\* coordinator.py:105: del self.hosts[ind] (KeyError when the key is gone)
host_del(p) ==
    /\ th[p].pc = "l105"
    /\ hosts' = Del(hosts, p)
    /\ th' = [th EXCEPT ![p].pc = IF p \in DOMAIN hosts THEN "done" ELSE "died"]
    /\ UNCHANGED <<cstate, await_partitions, ctoken, full_cluster,
                   register_callback, reqs, sh_pc, sh_mode>>
    /\ UNCHANGED histVars
    /\ UNCHANGED snapVars

\* coordinator.py:121-122: every thread is joined (a direct shutdown_host
\* call returns, or raises what requests.post raised).
shutdown_join ==
    /\ sh_pc = "join"
    /\ \A p \in Partitions : Finished(p)
    /\ sh_pc' = IF sh_mode = "all" THEN "l125"
                ELSE IF \E p \in Partitions : th[p].pc = "died" THEN "raised"
                ELSE "returned"
    /\ th' = [p \in Partitions |-> IdleTh]
    /\ UNCHANGED <<cstate, await_partitions, ctoken, hosts, full_cluster,
                   register_callback, reqs, sh_mode>>
    /\ UNCHANGED histVars
    /\ UNCHANGED snapVars

\* A reset that leaves the registry as the shutdown threads left it.
ResetHostsSkipped(h) == h

\* coordinator.py:125: self.hosts = {}
ResetHosts(h) == EmptyHosts

\* The assignment binds self.hosts to a new dict: a caller that holds the old
\* one (cluster.py:61) keeps it as it is at this moment.
shutdown_reset_hosts ==
    /\ sh_pc = "l125"
    /\ hosts' = ResetHosts(hosts)
    /\ sh_pc' = "l126"
    /\ snap_state' = IF snap_state = "live" THEN "frozen" ELSE snap_state
    /\ snap_frz' = IF snap_state = "live" THEN hosts ELSE snap_frz
    /\ UNCHANGED snap0
    /\ UNCHANGED <<cstate, await_partitions, ctoken, full_cluster,
                   register_callback, reqs, sh_mode, th>>
    /\ UNCHANGED histVars

\* coordinator.py:126: self.full_cluster = False if self.await_partitions else None
shutdown_reset_full ==
    /\ sh_pc = "l126"
    /\ full_cluster' = InitialFullCluster(await_partitions)
    /\ sh_pc' = "returned"
    /\ UNCHANGED <<cstate, await_partitions, ctoken, hosts,
                   register_callback, reqs, sh_mode, th>>
    /\ UNCHANGED histVars
    /\ UNCHANGED snapVars

\* The caller of shutdown_host / shutdown_hosts goes on.
shutdown_return ==
    /\ sh_pc \in {"returned", "raised"}
    /\ sh_pc' = "idle"
    /\ quiet' = FALSE
    /\ sh_failed' = FALSE
    /\ UNCHANGED <<cstate, await_partitions, ctoken, hosts, full_cluster,
                   register_callback, reqs, sh_mode, th>>
    /\ UNCHANGED <<full0, reached, shut, registered>>
    /\ UNCHANGED snapVars

\* ======================================================================
\* One Coordinator, constructed and serving, used through its HTTP routes
\* and its methods by any number of clients.
\* ======================================================================
CoordInit ==
    /\ cstate = "LISTENING"
    /\ await_partitions \in {NoneInt} \cup (0 .. MaxPartitions)
    /\ ctoken \in {NoToken, 1}
    /\ hosts = EmptyHosts
    /\ full_cluster = InitialFullCluster(await_partitions)
    /\ register_callback = FALSE
    /\ reqs = [r \in ReqIds |-> IdleReq]
    /\ sh_pc = "idle"
    /\ sh_mode = "all"
    /\ th = [p \in Partitions |-> IdleTh]
    /\ drv = "none"
    /\ is_active = FALSE
    /\ token = NoToken
    /\ await_hosts = FALSE
    /\ num_partitions = 0
    /\ total_cores = 0
    /\ map_job = "none"
    /\ workers = [p \in Partitions |-> "none"]
    /\ full0 = full_cluster
    /\ reached = (await_partitions = 0)
    /\ shut = FALSE
    /\ registered = {}
    /\ quiet = FALSE
    /\ sh_failed = FALSE
    /\ wh = [w \in Partitions |-> [h \in WReqIds |-> IdleWReq]]
    /\ hook_calls = [w \in Partitions |-> 0]
    /\ shutdown_callback = FALSE
    /\ cache_result = FALSE
    /\ snap_state = "none"
    /\ snap0 = EmptyHosts
    /\ snap_frz = EmptyHosts

\* Clients of /register: any token or none, any payload.
RRegister ==
    /\ \E r \in ReqIds, tok \in {NoToken} \cup Tokens, wf \in BOOLEAN,
          p \in Partitions, a \in Addrs : register_recv(r, tok, wf, p, a)
    /\ UNCHANGED clusterVars

\* Clients of /register that hold the Coordinator's token (partition servers
\* configured with set_token).
CRegister ==
    /\ \E r \in ReqIds, p \in Partitions, a \in Addrs :
          register_recv(r, ctoken, TRUE, p, a)
    /\ UNCHANGED clusterVars

CHandle ==
    /\ \E r \in ReqIds :
          \/ register_store(r)
          \/ register_check(r)
          \/ register_full(r)
          \/ register_done(r)
          \/ register_reply(r)
    /\ UNCHANGED clusterVars

CSetCallback ==
    /\ \E b \in BOOLEAN : set_register_callback(b)
    /\ UNCHANGED clusterVars

CShutdown ==
    /\ \/ shutdown_hosts_call
       \/ \E p \in Partitions : shutdown_host_call(p)
       \/ \E p \in Partitions : host_check(p)
       \/ \E p \in Partitions, ok \in BOOLEAN : host_post(p, ok)
       \/ \E p \in Partitions : host_del(p)
       \/ shutdown_join
       \/ shutdown_reset_hosts
       \/ shutdown_reset_full
       \/ shutdown_return
    /\ UNCHANGED clusterVars

\* RegSpec: the Coordinator under registration traffic of any kind.
RegNext == RRegister \/ CHandle \/ CSetCallback

RegSpec == CoordInit /\ [][RegNext]_vars

\* CoordSpec: registrations by token holders, concurrent with shutdown_host
\* and shutdown_hosts calls.
CoordNext == CRegister \/ CHandle \/ CShutdown

CoordSpec == CoordInit /\ [][CoordNext]_vars

\* ======================================================================
\* The Cluster: the driver thread, the Coordinator's server thread, the
\* MapPartitionsThread and the partition servers it dispatches.
\* The driver makes Cluster calls one after another; the model follows one
\* activation (a start on a cluster that was never started).
\* ======================================================================
Between == drv \in {"idle", "start_returned", "noop_returned",
                    "stop_returned", "stop_raised"}

\* The partitions of the RDD, one task (partition server) each.
Tasks == 0 .. (num_partitions - 1)

\* The (host, port) a partition server binds: partition_server.py:57-59.
AddrOf(w) == w + 1

\* A task occupies an execution slot from its launch to its end.
Running(w) == workers[w] \in {"init", "registering", "registered", "SERVING", "stopping"}
FreeSlot == Cardinality({w \in Tasks : Running(w)}) < total_cores

\* A start that does not look at is_active().
IsActiveIgnored == FALSE

\* cluster.py:54-56
IsActive == is_active

\* cluster.py:75: binascii.hexlify(os.urandom(10)), a token not seen before.
NewToken == (token % MaxTokens) + 1

\* cluster.py:71-91: start().  An active cluster returns at once; otherwise a
\* token is drawn, the Coordinator is built over rdd.getNumPartitions() and
\* its thread started, and the driver waits for get_url().
start(aw) ==
    /\ Between
    /\ IF IsActive
       THEN /\ drv' = "noop_returned"
            /\ UNCHANGED <<coordVars, histVars, snapVars>>
            /\ UNCHANGED <<is_active, token, await_hosts, num_partitions,
                           total_cores, map_job, workers>>
       ELSE /\ token' = NewToken
            /\ CoordinatorInit(num_partitions, token')
            /\ await_hosts' = aw
            /\ drv' = "start_url"
            /\ UNCHANGED <<reqs, sh_pc, sh_mode, th>>
            /\ UNCHANGED <<shut, registered, quiet, sh_failed>>
            /\ UNCHANGED snapVars
            /\ UNCHANGED <<is_active, num_partitions, total_cores, map_job, workers>>
    /\ UNCHANGED srvVars

\* thread_utils.py:43-44: ServerThread.run picks the port; get_url() is not
\* None from here on.
coordinator_port ==
    /\ cstate = "CREATED"
    /\ cstate' = "PORT"
    /\ UNCHANGED <<await_partitions, ctoken, hosts, full_cluster,
                   register_callback, reqs, sh_pc, sh_mode, th>>
    /\ UNCHANGED <<clusterVars, histVars, snapVars>>

\* thread_utils.py:46: app.run binds the port and serves.
coordinator_serve ==
    /\ cstate = "PORT"
    /\ cstate' = "LISTENING"
    /\ UNCHANGED <<await_partitions, ctoken, hosts, full_cluster,
                   register_callback, reqs, sh_pc, sh_mode, th>>
    /\ UNCHANGED <<clusterVars, histVars, snapVars>>

\* thread_utils.py:52-59: get_url()
get_url == IF cstate \in {"NONE", "CREATED"} THEN "None" ELSE "url"

\* cluster.py:88-102: the wait for the Coordinator's url ends, the partition
\* server gets url and token, the map job thread is started, _is_active is
\* set.
start_dispatch ==
    /\ drv = "start_url"
    /\ get_url # "None"
    /\ map_job' = "started"
    /\ is_active' = TRUE
    /\ drv' = IF await_hosts THEN "start_poll" ELSE "start_returned"
    /\ UNCHANGED <<token, await_hosts, num_partitions, total_cores, workers>>
    /\ UNCHANGED <<coordVars, histVars, snapVars>>
    /\ UNCHANGED srvVars

\* A barrier that lets None through.
BarrierOpenUnlessFalse == full_cluster # "False"

\* cluster.py:104: while await_hosts and not self.coordinator.full_cluster
BarrierOpen == full_cluster = "True"

\* cluster.py:104-105: the poll loop ends and start returns.
start_poll ==
    /\ drv = "start_poll"
    /\ BarrierOpen
    /\ drv' = "start_returned"
    /\ UNCHANGED <<is_active, token, await_hosts, num_partitions, total_cores,
                   map_job, workers>>
    /\ UNCHANGED <<coordVars, histVars, snapVars>>
    /\ UNCHANGED srvVars

\* thread_utils.py:74-78: MapPartitionsThread.run builds the (lazy) result
\* RDD and submits the job with count(): one task per partition.
map_submit ==
    /\ map_job = "started"
    /\ map_job' = "running"
    /\ workers' = [w \in Partitions |-> IF w \in Tasks THEN "pending" ELSE "none"]
    /\ UNCHANGED <<drv, is_active, token, await_hosts, num_partitions, total_cores>>
    /\ UNCHANGED <<coordVars, histVars, snapVars>>
    /\ UNCHANGED srvVars

\* thread_utils.py:78: count() returns when every task has ended (and raises
\* if one has failed).
map_finish ==
    /\ map_job = "running"
    /\ \A w \in Tasks : workers[w] \in {"TERMINATED", "FAILED"}
    /\ map_job' = IF \E w \in Tasks : workers[w] = "FAILED" THEN "failed" ELSE "done"
    /\ UNCHANGED <<drv, is_active, token, await_hosts, num_partitions,
                   total_cores, workers>>
    /\ UNCHANGED <<coordVars, histVars, snapVars>>
    /\ UNCHANGED srvVars

\* partition_server.py:46-61, 106-127: the engine launches the task on a free
\* slot; __call__ binds host and port, _launch_server builds the app and
\* runs the initialization hook.
worker_launch(w) ==
    /\ w \in Tasks
    /\ workers[w] = "pending"
    /\ FreeSlot
    /\ workers' = [workers EXCEPT ![w] = "init"]
    /\ UNCHANGED <<drv, is_active, token, await_hosts, num_partitions,
                   total_cores, map_job>>
    /\ UNCHANGED <<coordVars, histVars, snapVars>>
    /\ UNCHANGED srvVars

\* partition_server.py:36-44, 151: _register() posts partition, host and port
\* with the cluster's token; requests.post raises when the Coordinator does
\* not accept connections.
worker_register(w) ==
    /\ w \in Tasks
    /\ workers[w] = "init"
    /\ IF cstate = "LISTENING"
       THEN /\ register_recv(w, token, TRUE, w, AddrOf(w))
            /\ workers' = [workers EXCEPT ![w] = "registering"]
       ELSE /\ workers' = [workers EXCEPT ![w] = "FAILED"]
            /\ UNCHANGED <<coordVars, histVars, snapVars>>
    /\ UNCHANGED <<drv, is_active, token, await_hosts, num_partitions,
                   total_cores, map_job>>
    /\ UNCHANGED srvVars

\* partition_server.py:44: requests.post returns the response, which
\* _register does not look at.
worker_registered(w) ==
    /\ w \in Tasks
    /\ workers[w] = "registering"
    /\ register_reply(w)
    /\ workers' = [workers EXCEPT ![w] = "registered"]
    /\ UNCHANGED <<drv, is_active, token, await_hosts, num_partitions,
                   total_cores, map_job>>
    /\ UNCHANGED srvVars

\* partition_server.py:154: app.run binds the port and serves.
worker_serve(w) ==
    /\ w \in Tasks
    /\ workers[w] = "registered"
    /\ workers' = [workers EXCEPT ![w] = "SERVING"]
    /\ UNCHANGED <<drv, is_active, token, await_hosts, num_partitions,
                   total_cores, map_job>>
    /\ UNCHANGED <<coordVars, histVars, snapVars>>
    /\ UNCHANGED srvVars

\* The partition server that serves at an address, if there is one.
ServingAt(a) == {w \in Tasks : AddrOf(w) = a /\ workers[w] = "SERVING"}

\* coordinator.py:102-103: the shutdown url carries the Coordinator's token,
\* if it has one.
ShutdownUrlToken == IF ctoken # NoToken THEN ctoken ELSE NoToken

\* partition_server.py:132-133: the partition server's token check; its
\* token is the cluster's (cluster.py:95, set_token).
WorkerTokenRejected(tok) == token # NoToken /\ token # tok

\* coordinator.py:104 with partition_server.py:129-145: the shutdown request
\* of a shutdown_host thread.  A serving partition server checks the token
\* (403 on a mismatch), calls the shutdown callback and stops its server;
\* with no server at the address requests.post raises.
worker_shutdown(p) ==
    /\ th[p].pc = "l104"
    /\ LET ws == ServingAt(th[p].url) IN
          /\ host_post(p, ws # {})
          /\ workers' = [w \in Partitions |->
                            IF w \in ws /\ ~WorkerTokenRejected(ShutdownUrlToken)
                            THEN "stopping" ELSE workers[w]]
          /\ hook_calls' = [w \in Partitions |->
                            IF /\ w \in ws
                               /\ ~WorkerTokenRejected(ShutdownUrlToken)
                               /\ shutdown_callback
                            THEN hook_calls[w] + 1 ELSE hook_calls[w]]
    /\ UNCHANGED <<drv, is_active, token, await_hosts, num_partitions,
                   total_cores, map_job>>
    /\ UNCHANGED <<wh, shutdown_callback, cache_result>>

\* partition_server.py:154, 61-63: app.run returns, _build_result, the task
\* ends.
worker_exit(w) ==
    /\ w \in Tasks
    /\ workers[w] = "stopping"
    /\ workers' = [workers EXCEPT ![w] = "TERMINATED"]
    /\ UNCHANGED <<drv, is_active, token, await_hosts, num_partitions,
                   total_cores, map_job>>
    /\ UNCHANGED <<coordVars, histVars, snapVars>>
    /\ UNCHANGED srvVars

\* cluster.py:107-109: stop() calls self.coordinator.shutdown_hosts()
\* (AttributeError when there is no Coordinator).
stop ==
    /\ Between
    /\ IF cstate = "NONE"
       THEN /\ drv' = "stop_raised"
            /\ UNCHANGED <<coordVars, histVars, snapVars>>
       ELSE /\ shutdown_hosts_call
            /\ drv' = "stop_hosts"
    /\ UNCHANGED <<is_active, token, await_hosts, num_partitions, total_cores,
                   map_job, workers>>
    /\ UNCHANGED srvVars

\* cluster.py:110 with thread_utils.py:26-34, 48-50: shutdown_hosts has
\* returned; coordinator.shutdown() posts to the Coordinator's own
\* /control/shutdown, which stops the server (requests.post raises when the
\* server does not accept connections).
stop_coordinator ==
    /\ drv = "stop_hosts"
    /\ sh_pc = "returned"
    /\ sh_pc' = "idle"
    /\ quiet' = FALSE
    /\ sh_failed' = FALSE
    /\ cstate' = IF cstate = "LISTENING" THEN "STOPPED" ELSE cstate
    /\ drv' = IF cstate = "LISTENING" THEN "stop_flag" ELSE "stop_raised"
    /\ UNCHANGED <<await_partitions, ctoken, hosts, full_cluster,
                   register_callback, reqs, sh_mode, th>>
    /\ UNCHANGED <<full0, reached, shut, registered>>
    /\ UNCHANGED <<is_active, token, await_hosts, num_partitions, total_cores,
                   map_job, workers>>
    /\ UNCHANGED snapVars
    /\ UNCHANGED srvVars

\* cluster.py:111: self._is_active = False
stop_flag ==
    /\ drv = "stop_flag"
    /\ is_active' = FALSE
    /\ drv' = "stop_returned"
    /\ UNCHANGED <<token, await_hosts, num_partitions, total_cores, map_job, workers>>
    /\ UNCHANGED <<coordVars, histVars, snapVars>>
    /\ UNCHANGED srvVars

\* A get_hosts that tests is_active() where the code tests self.coordinator.
GetHostsIfActive ==
    IF is_active THEN [none |-> FALSE, value |-> hosts]
    ELSE [none |-> TRUE, value |-> EmptyHosts]

\* cluster.py:58-63: get_hosts() returns self.coordinator.hosts, the
\* Coordinator's dict itself, or None when there is no Coordinator.
get_hosts ==
    IF cstate # "NONE" THEN [none |-> FALSE, value |-> hosts]
    ELSE [none |-> TRUE, value |-> EmptyHosts]

\* The caller of get_hosts keeps the dict it was given.
get_hosts_call ==
    /\ Between
    /\ ~get_hosts.none
    /\ snap_state' = "live"
    /\ snap0' = get_hosts.value
    /\ UNCHANGED snap_frz
    /\ UNCHANGED <<coordVars, clusterVars, histVars>>

\* The dict the caller holds, as the caller sees it now: Coordinator.hosts
\* itself as long as self.hosts is bound to it.
Snapshot == IF snap_state = "live" THEN hosts ELSE snap_frz

\* The caller stores an entry in the dict it was given; snap0 follows what
\* the caller itself has put there.
snapshot_put(p, a) ==
    /\ Between
    /\ snap_state # "none"
    /\ snap0' = Put(snap0, p, a)
    /\ IF snap_state = "live"
       THEN /\ hosts' = Put(hosts, p, a)
            /\ UNCHANGED snap_frz
       ELSE /\ snap_frz' = Put(snap_frz, p, a)
            /\ UNCHANGED hosts
    /\ UNCHANGED snap_state
    /\ UNCHANGED <<cstate, await_partitions, ctoken, full_cluster,
                   register_callback, reqs, sh_pc, sh_mode, th>>
    /\ UNCHANGED <<clusterVars, histVars>>

\* cluster.py:113-122: get_result_rdd().  self.map_job is first assigned in
\* start (line 98), so the test of line 119 raises AttributeError before
\* that when cache_result is set; MapPartitionsThread.result is None until
\* run() assigns it (thread_utils.py:72, 75), which it does before count().
get_result_rdd ==
    IF ~cache_result THEN "None"
    ELSE IF map_job = "none" THEN "AttributeError"
    ELSE IF map_job = "started" THEN "None"
    ELSE "rdd"

Init ==
    /\ cstate = "NONE"
    /\ await_partitions = NoneInt
    /\ ctoken = NoToken
    /\ hosts = EmptyHosts
    /\ full_cluster = "None"
    /\ register_callback = FALSE
    /\ reqs = [r \in ReqIds |-> IdleReq]
    /\ sh_pc = "idle"
    /\ sh_mode = "all"
    /\ th = [p \in Partitions |-> IdleTh]
    /\ drv = "idle"
    /\ is_active = FALSE
    /\ token = NoToken
    /\ await_hosts = FALSE
    /\ num_partitions \in 0 .. MaxPartitions
    /\ total_cores \in 1 .. MaxCores
    /\ map_job = "none"
    /\ workers = [p \in Partitions |-> "none"]
    /\ full0 = "None"
    /\ reached = FALSE
    /\ shut = FALSE
    /\ registered = {}
    /\ quiet = FALSE
    /\ sh_failed = FALSE
    /\ wh = [w \in Partitions |-> [h \in WReqIds |-> IdleWReq]]
    /\ hook_calls = [w \in Partitions |-> 0]
    /\ shutdown_callback = FALSE
    /\ cache_result \in BOOLEAN
    /\ snap_state = "none"
    /\ snap0 = EmptyHosts
    /\ snap_frz = EmptyHosts

\* The handler threads of the Coordinator.
Handle ==
    /\ \E r \in ReqIds :
          \/ register_store(r)
          \/ register_check(r)
          \/ register_full(r)
          \/ register_done(r)
    /\ UNCHANGED clusterVars

\* The threads of shutdown_hosts.
Fanout ==
    /\ \/ \E p \in Partitions : host_check(p)
       \/ \E p \in Partitions : host_del(p)
       \/ shutdown_join
       \/ shutdown_reset_hosts
       \/ shutdown_reset_full
    /\ UNCHANGED clusterVars

Driver ==
    \/ \E aw \in BOOLEAN : (is_active \/ cstate = "NONE") /\ start(aw)
    \/ start_dispatch
    \/ start_poll
    \/ stop
    \/ stop_coordinator
    \/ stop_flag

Server == coordinator_port \/ coordinator_serve

Job == map_submit \/ map_finish

Worker ==
    \E w \in Partitions :
        \/ worker_launch(w)
        \/ worker_register(w)
        \/ worker_registered(w)
        \/ worker_serve(w)
        \/ worker_shutdown(w)
        \/ worker_exit(w)

Next == Driver \/ Server \/ Job \/ Worker \/ Handle \/ Fanout

Spec == Init /\ [][Next]_vars

\* ----------------------------------------------------------------------
\* The Cluster with a caller that also asks for the registry between its
\* start and stop calls, and uses the dict it gets.
\* ----------------------------------------------------------------------
Caller ==
    \/ get_hosts_call
    \/ \E p \in Partitions, a \in Addrs : snapshot_put(p, a)

CallerInit == Init /\ ~cache_result /\ total_cores = MaxCores

CallerNext == Next \/ Caller

CallerSpec == CallerInit /\ [][CallerNext]_vars

\* ======================================================================
\* Partition servers run by the engine against a Coordinator, with any
\* number of clients of their /control/shutdown route.  The token of the
\* partition servers (set_token) need not be the Coordinator's, and the
\* Coordinator need not be reachable.
\* ======================================================================

\* partition_server.py:129-134: a shutdown request arrives at a serving
\* partition server; its handler checks the token (403).
shutdown_server_recv(w, h, tok) ==
    /\ w \in Tasks
    /\ workers[w] = "SERVING"
    /\ wh[w][h].pc = "idle"
    /\ wh' = [wh EXCEPT ![w][h] =
                 [pc |-> IF WorkerTokenRejected(tok) THEN "r403" ELSE "l137",
                  tok |-> tok]]
    /\ UNCHANGED <<hook_calls, shutdown_callback, cache_result>>
    /\ UNCHANGED <<drv, is_active, token, await_hosts, num_partitions,
                   total_cores, map_job, workers>>
    /\ UNCHANGED <<coordVars, histVars, snapVars>>

\* partition_server.py:137-138: the shutdown callback, if one is set.
shutdown_server_callback(w, h) ==
    /\ wh[w][h].pc = "l137"
    /\ wh' = [wh EXCEPT ![w][h] = [pc |-> "l141", tok |-> NoToken]]
    /\ hook_calls' = [hook_calls EXCEPT ![w] =
                         IF shutdown_callback THEN @ + 1 ELSE @]
    /\ UNCHANGED <<shutdown_callback, cache_result>>
    /\ UNCHANGED <<drv, is_active, token, await_hosts, num_partitions,
                   total_cores, map_job, workers>>
    /\ UNCHANGED <<coordVars, histVars, snapVars>>

\* partition_server.py:141-145: werkzeug's shutdown function; the server
\* stops accepting requests and app.run is about to return.
shutdown_server_func(w, h) ==
    /\ wh[w][h].pc = "l141"
    /\ wh' = [wh EXCEPT ![w][h].pc = "r200"]
    /\ workers' = [workers EXCEPT ![w] = IF @ = "SERVING" THEN "stopping" ELSE @]
    /\ UNCHANGED <<hook_calls, shutdown_callback, cache_result>>
    /\ UNCHANGED <<drv, is_active, token, await_hosts, num_partitions,
                   total_cores, map_job>>
    /\ UNCHANGED <<coordVars, histVars, snapVars>>

\* The client has read the response.
shutdown_server_reply(w, h) ==
    /\ wh[w][h].pc \in {"r403", "r200"}
    /\ wh' = [wh EXCEPT ![w][h] = IdleWReq]
    /\ UNCHANGED <<hook_calls, shutdown_callback, cache_result>>
    /\ UNCHANGED <<drv, is_active, token, await_hosts, num_partitions,
                   total_cores, map_job, workers>>
    /\ UNCHANGED <<coordVars, histVars, snapVars>>

WorkerInit ==
    /\ cstate \in {"LISTENING", "STOPPED"}
    /\ num_partitions \in 1 .. MaxPartitions
    /\ await_partitions = num_partitions
    /\ ctoken \in {NoToken, 1}
    /\ hosts = EmptyHosts
    /\ full_cluster = InitialFullCluster(await_partitions)
    /\ register_callback = FALSE
    /\ reqs = [r \in ReqIds |-> IdleReq]
    /\ sh_pc = "idle"
    /\ sh_mode = "all"
    /\ th = [p \in Partitions |-> IdleTh]
    /\ drv = "none"
    /\ is_active = FALSE
    /\ token \in {NoToken} \cup Tokens
    /\ await_hosts = FALSE
    /\ total_cores = MaxCores
    /\ map_job = "running"
    /\ workers = [w \in Partitions |-> IF w \in Tasks THEN "pending" ELSE "none"]
    /\ full0 = full_cluster
    /\ reached = FALSE
    /\ shut = FALSE
    /\ registered = {}
    /\ quiet = FALSE
    /\ sh_failed = FALSE
    /\ wh = [w \in Partitions |-> [h \in WReqIds |-> IdleWReq]]
    /\ hook_calls = [w \in Partitions |-> 0]
    /\ shutdown_callback \in BOOLEAN
    /\ cache_result = FALSE
    /\ snap_state = "none"
    /\ snap0 = EmptyHosts
    /\ snap_frz = EmptyHosts

\* A partition server's run, from its launch to its end.
WRun ==
    \E w \in Partitions :
        \/ worker_launch(w)
        \/ worker_register(w)
        \/ worker_registered(w)
        \/ worker_serve(w)
        \/ worker_exit(w)

\* The /control/shutdown handler threads of the partition servers; the
\* clients present any token or none.
WControl ==
    \E w \in Partitions, h \in WReqIds :
        \/ \E tok \in {NoToken} \cup Tokens : shutdown_server_recv(w, h, tok)
        \/ shutdown_server_callback(w, h)
        \/ shutdown_server_func(w, h)
        \/ shutdown_server_reply(w, h)

WorkerNext == WRun \/ Handle \/ WControl

WorkerSpec == WorkerInit /\ [][WorkerNext]_vars

\* ======================================================================
\* Properties of the Coordinator
\* ======================================================================

\* C1: a /register call is answered 403 if and only if a token is configured
\* and the presented token differs from it; the rejected call changes neither
\* the registry nor full_cluster and calls no registration callback, whatever
\* its payload; with no token configured a call with a readable payload is
\* accepted whatever token it presents, and an accepted call is answered 200.
C1_RejectedIffTokenMismatch ==
    [][\A r \in ReqIds :
         /\ (reqs[r].pc = "idle" /\ reqs'[r].pc # "idle") =>
               /\ (reqs'[r].status = 403) <=>
                      (ctoken # NoToken /\ reqs'[r].tok # ctoken)
               /\ (reqs'[r].status = 403) =>
                      /\ reqs'[r].pc = "done"
                      /\ ~reqs'[r].called
                      /\ hosts' = hosts
                      /\ full_cluster' = full_cluster
               /\ (ctoken = NoToken /\ reqs'[r].wf) => reqs'[r].pc = "l61"
         /\ (InFlight(r) /\ reqs'[r].pc = "done") => reqs'[r].status = 200
      ]_vars

\* A request with a wrong token has been rejected by a Coordinator that holds
\* registrations and has a callback set.
C1_Witness ==
    \E r \in ReqIds :
        /\ reqs[r].pc = "done" /\ reqs[r].status = 403
        /\ reqs[r].tok \notin {NoToken, ctoken}
        /\ hosts # EmptyHosts
        /\ register_callback

\* C2: as long as no shutdown call has been made, the registry holds exactly
\* one entry per distinct partition index that an accepted registration has
\* stored, in every interleaving of the handlers, and /status reports that
\* number as current_partitions.
C2_NoLostUpdates ==
    ~shut => /\ DOMAIN hosts = registered
             /\ get_status.current_partitions = Cardinality(registered)

\* Two handlers are in flight at once, each past its store, and every
\* partition index is registered.
C2_Witness ==
    /\ ~shut
    /\ \E r1, r2 \in ReqIds : r1 # r2 /\ reqs[r1].pc = "l66" /\ reqs[r2].pc = "l66"
    /\ registered = Partitions

\* C3: with the registrations all handled, full_cluster is true exactly when
\* an expected count was set and the number of registered partitions has
\* reached it.
C3_FullExactlyWhenReached ==
    (~shut /\ NoHandlerInFlight /\ registered # {}) =>
        ((full_cluster = "True") <=> (await_partitions # NoneInt /\ reached))

\* C4: a registration of a partition replaces that partition's entry and
\* leaves the number of entries to what it was for a partition already
\* registered; the event the callback receives, after the store, has as its
\* old_entry the entry the store replaced (none if there was none) and as its
\* full_cluster the flag at the time of the call.
C4_EventCarriesReplacedEntry ==
    [][\A r \in ReqIds :
         /\ (reqs[r].pc = "l61" /\ reqs'[r].pc = "l66") =>
               /\ reqs[r].old_entry = Get(hosts, reqs[r].partition)
               /\ hosts'[reqs[r].partition] = reqs[r].addr
               /\ (reqs[r].partition \in DOMAIN hosts => Size(hosts') = Size(hosts))
         /\ (reqs[r].pc = "l72" /\ reqs'[r].pc = "done") =>
               /\ reqs'[r].called = register_callback
               /\ register_callback => reqs'[r].ev_full = full_cluster
      ]_vars

C6_StartIsBarrier ==
    (drv = "start_returned" /\ await_hosts) =>
        /\ full_cluster = "True"
        /\ \A w \in Tasks : w \in DOMAIN hosts

\* start(await_hosts=True) has returned for an RDD of MaxPartitions partitions.
C6_Witness ==
    /\ drv = "start_returned" /\ await_hosts
    /\ num_partitions = MaxPartitions

\* C7: with at least as many execution slots as partitions, once the
\* registration of every partition's worker has been answered by the
\* Coordinator the barrier start(await_hosts=True) polls is open (so that the
\* call returns), for every partition count, zero included.
C7_BarrierOpensWhenAllRegistered ==
    (/\ drv = "start_poll"
     /\ total_cores >= num_partitions
     /\ map_job = "running" \/ map_job = "done"
     /\ \A w \in Tasks : workers[w] \in {"registered", "SERVING"} /\ w \in registered)
        => BarrierOpen

\* C8: start(await_hosts=True) on a cluster with fewer execution slots than
\* partitions does not end up polling with no worker failed and nothing left
\* that could run.
C8_NoSilentHang ==
    ~(/\ drv = "start_poll"
      /\ total_cores < num_partitions
      /\ \A w \in Tasks : workers[w] # "FAILED"
      /\ ~ENABLED Next)

\* C9: when stop returns, every worker of the activation has ended or is
\* ending: none is still to be launched, about to register or serving.
C9_StopLeavesNoWorker ==
    drv = "stop_returned" =>
        \A w \in Tasks : workers[w] \in {"stopping", "TERMINATED", "FAILED"}

\* C10: a start call on an active cluster returns at once and changes
\* nothing: not the token, the Coordinator, its registry and flag, the map
\* job, the workers or is_active, for either value of await_hosts.
C10_StartWhileActiveIsNoop ==
    [][(Between /\ is_active /\ drv' # drv /\ drv' \in {"noop_returned", "start_url"}) =>
          /\ drv' = "noop_returned"
          /\ UNCHANGED <<token, is_active, map_job, workers>>
          /\ UNCHANGED <<cstate, ctoken, await_partitions, hosts, full_cluster, reqs>>
      ]_vars

\* start has returned at once on an active cluster whose workers have
\* registered.
C10_Witness ==
    /\ drv = "noop_returned"
    /\ is_active
    /\ hosts # EmptyHosts

\* ======================================================================
\* Properties of Cluster.stop and of the control routes
\* ======================================================================

\* C11: a stop call on a cluster that is not active starts no shutdown
\* fan-out and ends at once leaving is_active, the Coordinator, its registry
\* and the token as they are; and the Coordinator's own shutdown is requested
\* only by a stop call that was made on an active cluster.
C11_StopWhileInactiveFailsFast ==
    [][/\ (Between /\ ~is_active /\ drv' \in {"stop_hosts", "stop_raised"}) =>
             /\ drv' = "stop_raised"
             /\ UNCHANGED <<is_active, token, cstate, hosts, full_cluster, sh_pc, th>>
       /\ (drv = "stop_hosts" /\ drv' \in {"stop_flag", "stop_raised"}) => is_active
      ]_vars

\* thread_utils.py:50: the url ServerThread.shutdown posts to carries no
\* token parameter.
ShutdownRequestToken == NoToken

\* C12: the Coordinator stops serving only on a shutdown request that
\* presents the configured token, when one is configured.
C12_CoordinatorShutdownNeedsToken ==
    [][(cstate = "LISTENING" /\ cstate' = "STOPPED") =>
          ~(ctoken # NoToken /\ ShutdownRequestToken # ctoken)
      ]_vars

\* C13: a shutdown request to a partition server is answered 403 exactly when
\* the server has a token and the request presents another; the rejected
\* request calls no shutdown callback and leaves the server SERVING; a server
\* with a callback stops serving only after the callback was called; and over
\* one run the callback is called at most once, however many valid requests
\* arrive.
C13_ShutdownHookOnce ==
    [][\A w \in Partitions :
         /\ \A h \in WReqIds :
              (wh[w][h].pc = "idle" /\ wh'[w][h].pc # "idle") =>
                  /\ (wh'[w][h].pc = "r403") <=>
                         (token # NoToken /\ wh'[w][h].tok # token)
                  /\ (wh'[w][h].pc = "r403") =>
                         /\ hook_calls' = hook_calls
                         /\ workers'[w] = "SERVING"
         /\ (workers[w] = "SERVING" /\ workers'[w] = "stopping" /\ shutdown_callback)
               => hook_calls[w] >= 1
         /\ hook_calls'[w] <= 1
      ]_vars

\* The steps of a partition server's run, in their order.
WorkerOrder ==
    {<<"pending", "init">>, <<"init", "registering">>, <<"init", "FAILED">>,
     <<"registering", "registered">>, <<"registered", "SERVING">>,
     <<"SERVING", "stopping">>, <<"stopping", "TERMINATED">>}

\* C14: a partition server goes through bind and initialization, registration,
\* SERVING and TERMINATED in that order; a registration call that cannot
\* reach the Coordinator ends the run, and the server goes on to serve only
\* when its registration was answered with success.
C14_ServesOnlyIfRegistered ==
    [][\A w \in Partitions :
         /\ workers'[w] # workers[w] => <<workers[w], workers'[w]>> \in WorkerOrder
         /\ (workers[w] = "init" /\ cstate # "LISTENING" /\ workers'[w] # "init")
               => workers'[w] = "FAILED"
         /\ (workers[w] = "registering" /\ workers'[w] = "registered")
               => reqs[w].status = 200
      ]_vars

\* ======================================================================
\* Properties of the Cluster's accessors
\* ======================================================================

\* C15: get_hosts returns None as long as start has never been called (no
\* token has been drawn), and the Coordinator's registry from then on, also
\* after a stop.
C15_GetHostsNoneUntilStarted ==
    /\ token = NoToken => get_hosts.none
    /\ token # NoToken => (~get_hosts.none /\ get_hosts.value = hosts)

\* start has returned and a get_hosts call at this point returns a registry
\* with an entry for every partition.
C15_Witness ==
    /\ drv = "start_returned"
    /\ token # NoToken
    /\ ~get_hosts.none
    /\ Size(get_hosts.value) = MaxPartitions

\* C16: get_result_rdd returns the result RDD only when cache_result is set
\* and the map job has completed, and None in every other state.
C16_ResultOnlyWhenDone ==
    /\ get_result_rdd = "rdd" => (cache_result /\ map_job = "done")
    /\ get_result_rdd # "rdd" => get_result_rdd = "None"

\* C17: the dict a get_hosts call returned holds what it held when it was
\* returned, plus what its holder has put there, whatever registrations and
\* removals follow; and a store by its holder leaves the Coordinator's
\* registry as it is.
C17_GetHostsReturnsCopy ==
    [][/\ snap_state' # "none" => Snapshot' = snap0'
       /\ (snap_state # "none" /\ snap_state' = snap_state /\ snap0' # snap0)
             => hosts' = hosts
      ]_vars

\* ======================================================================
\* Properties of the shutdown fan-out
\* ======================================================================

\* C18: a shutdown_host execution for a registered partition posts to the
\* address the registry holds for it and, when it ends, whether the post
\* succeeded or raised, the partition has no entry and every other entry is
\* what it was; for a partition without an entry it ends without a post and
\* without a change.
C18_ShutdownOneRemovesEntry ==
    [][\A p \in Partitions :
         /\ (th[p].pc = "l100" /\ th'[p].pc = "l104") => th'[p].url = hosts[p]
         /\ (th[p].pc \in {"l104", "l105"} /\ th'[p].pc \in {"done", "died"}) =>
               /\ p \notin DOMAIN hosts'
               /\ \A q \in Partitions \ {p} : Get(hosts', q) = Get(hosts, q)
         /\ (th[p].pc = "l100" /\ th'[p].pc = "done") =>
               (p \notin DOMAIN hosts /\ hosts' = hosts)
      ]_vars

\* C19: shutdown_hosts starts a shutdown_host for every partition in the
\* registry at its call and goes on past its join only when each of them has
\* made its request and ended, by return or by exception; the Coordinator is
\* stopped only by a stop whose shutdown_hosts has returned; and is_active
\* becomes false only with the Coordinator stopped.
C19_ShutdownIsBarrier ==
    [][/\ (sh_pc = "idle" /\ sh_pc' = "join" /\ sh_mode' = "all") =>
             \A p \in Partitions : (p \in DOMAIN hosts) <=> (th'[p].pc = "l100")
       /\ (sh_pc = "join" /\ sh_pc' # "join") =>
             \A p \in Partitions :
                 th[p].pc # "none" => (th[p].pc \in {"done", "died"} /\ th[p].url # NoEntry)
       /\ (cstate = "LISTENING" /\ cstate' = "STOPPED") =>
             (drv = "stop_hosts" /\ sh_pc = "returned")
       /\ (is_active /\ ~is_active') => cstate = "STOPPED"
      ]_vars

\* stop has returned after a fan-out over two registered partitions, one
\* whose server took the request and one whose server was not serving yet.
C19_Witness ==
    /\ drv = "stop_returned"
    /\ ~is_active
    /\ cstate = "STOPPED"
    /\ \E w \in Tasks : workers[w] \in {"stopping", "TERMINATED"}
    /\ \E w \in Tasks : workers[w] = "registered"

\* C20: once a shutdown_hosts call has returned and the register handlers
\* that ran beside it have ended, it is not the case that full_cluster is
\* true while the registry is empty.
C20_RegisterSerializedWithShutdown ==
    (sh_pc = "returned" /\ sh_mode = "all" /\ NoHandlerInFlight) =>
        ~(full_cluster = "True" /\ hosts = EmptyHosts)

\* ======================================================================
\* Properties of the flag, of the registry and of the start-up order
\* ======================================================================

\* C21: full_cluster, once true, stays true through every step of a register
\* handler and of a shutdown_host, whatever the number of entries becomes;
\* only the reset at the end of shutdown_hosts takes it back.
C21_FullClusterSticky ==
    [][(full_cluster = "True" /\ full_cluster' # "True") =>
          (sh_pc = "l126" /\ sh_mode = "all" /\ sh_pc' = "returned")
      ]_vars

\* A direct shutdown_host call has returned having removed an entry: the
\* registry is below the expected count and full_cluster is still true.
C21_Witness ==
    /\ full_cluster = "True"
    /\ sh_pc = "returned" /\ sh_mode = "one"
    /\ await_partitions # NoneInt
    /\ Size(hosts) < await_partitions

\* C22: a shutdown request of a shutdown_host thread never goes to the
\* address of a partition server that has registered and is not serving yet:
\* the server at the address takes the request, the post returns, and the
\* server stops.
C22_RegisteredWorkerAccepts ==
    [][\A p \in Partitions :
         (th[p].pc = "l104" /\ th'[p].pc # "l104") =>
             \A w \in Tasks :
                 AddrOf(w) = th[p].url =>
                     /\ workers[w] \notin {"registering", "registered"}
                     /\ workers[w] = "SERVING" =>
                            (th'[p].pc = "l105" /\ workers'[w] = "stopping")
      ]_vars

\* C23: the map job is started, and a partition server's registration call
\* is made, only with the Coordinator accepting requests or already stopped,
\* never with the Coordinator created and not yet serving.
C23_DispatchAfterListening ==
    [][/\ (map_job = "none" /\ map_job' # "none") => cstate = "LISTENING"
       /\ \A w \in Partitions :
             (workers[w] = "init" /\ workers'[w] # "init") =>
                 cstate \notin {"CREATED", "PORT"}
      ]_vars

====
